---- MODULE Spec2Model ----
(***************************************************************************)
(* A model of the smart recipe generator (src/main.py): the ingredient     *)
(* catalog, the RecipeManager with its JSON history store, the Streamlit   *)
(* script run (main) with its Generate and Like buttons, the nutrition     *)
(* estimate, the dietary tags and the "Popular Combinations" ranking.      *)
(*                                                                         *)
(* One script run of main() is one action.  Strings are kept as TLA+       *)
(* strings; CodePoints gives the characters of each ingredient name, from  *)
(* which len() and the string comparison < are computed.                   *)
(***************************************************************************)
EXTENDS Integers, Sequences, FiniteSets, TLC

\* ------------------------------------------------------------------ bounds
\* At most MaxGen successful generations are done.
MaxGen == 2
\* The Like button is pressed at most MaxLikes times.
MaxLikes == 2
\* The function harness: the lists it passes are over the first NumFnNames
\* names of FnNameList and at most MaxFnLen long; the stores it prepares
\* hold at most MaxStoreSize ingredient occurrences in all.
NumFnNames == 4
MaxFnLen == 3
MaxStoreSize == 4

\* ------------------------------------------------------------ the catalog
\* INGREDIENT_CATEGORIES, in the dict's insertion order.
INGREDIENT_CATEGORIES ==
  << [name |-> "Vegetables",
      items |-> <<"Tomato", "Onion", "Garlic", "Spinach", "Potato", "Carrot",
                  "Bell Pepper", "Mushroom">>,
      tags |-> <<"vegan", "vegetarian", "healthy">>],
     [name |-> "Proteins",
      items |-> <<"Eggs", "Chicken", "Tofu", "Beef", "Fish", "Lentils">>,
      tags |-> <<"high-protein">>],
     [name |-> "Dairy",
      items |-> <<"Milk", "Cheese", "Yogurt", "Butter">>,
      tags |-> <<"vegetarian">>],
     [name |-> "Pantry",
      items |-> <<"Rice", "Pasta", "Flour", "Oil", "Salt", "Pepper">>,
      tags |-> <<"staples">>],
     [name |-> "Herbs",
      items |-> <<"Basil", "Oregano", "Thyme", "Cilantro", "Parsley">>,
      tags |-> <<"flavor-enhancer">>] >>

\* The characters (code points) of a name; "Saffron" is a name that is in
\* no category.
CodePoints(n) ==
  CASE n = "Tomato" -> <<84, 111, 109, 97, 116, 111>>
    [] n = "Onion" -> <<79, 110, 105, 111, 110>>
    [] n = "Garlic" -> <<71, 97, 114, 108, 105, 99>>
    [] n = "Spinach" -> <<83, 112, 105, 110, 97, 99, 104>>
    [] n = "Potato" -> <<80, 111, 116, 97, 116, 111>>
    [] n = "Carrot" -> <<67, 97, 114, 114, 111, 116>>
    [] n = "Bell Pepper" -> <<66, 101, 108, 108, 32, 80, 101, 112, 112, 101, 114>>
    [] n = "Mushroom" -> <<77, 117, 115, 104, 114, 111, 111, 109>>
    [] n = "Eggs" -> <<69, 103, 103, 115>>
    [] n = "Chicken" -> <<67, 104, 105, 99, 107, 101, 110>>
    [] n = "Tofu" -> <<84, 111, 102, 117>>
    [] n = "Beef" -> <<66, 101, 101, 102>>
    [] n = "Fish" -> <<70, 105, 115, 104>>
    [] n = "Lentils" -> <<76, 101, 110, 116, 105, 108, 115>>
    [] n = "Milk" -> <<77, 105, 108, 107>>
    [] n = "Cheese" -> <<67, 104, 101, 101, 115, 101>>
    [] n = "Yogurt" -> <<89, 111, 103, 117, 114, 116>>
    [] n = "Butter" -> <<66, 117, 116, 116, 101, 114>>
    [] n = "Rice" -> <<82, 105, 99, 101>>
    [] n = "Pasta" -> <<80, 97, 115, 116, 97>>
    [] n = "Flour" -> <<70, 108, 111, 117, 114>>
    [] n = "Oil" -> <<79, 105, 108>>
    [] n = "Salt" -> <<83, 97, 108, 116>>
    [] n = "Pepper" -> <<80, 101, 112, 112, 101, 114>>
    [] n = "Basil" -> <<66, 97, 115, 105, 108>>
    [] n = "Oregano" -> <<79, 114, 101, 103, 97, 110, 111>>
    [] n = "Thyme" -> <<84, 104, 121, 109, 101>>
    [] n = "Cilantro" -> <<67, 105, 108, 97, 110, 116, 114, 111>>
    [] n = "Parsley" -> <<80, 97, 114, 115, 108, 101, 121>>
    [] n = "Saffron" -> <<83, 97, 102, 102, 114, 111, 110>>

\* Python's len(str).
StrLen(n) == Len(CodePoints(n))

\* Python's str < str: the first differing code point decides, a proper
\* prefix is smaller.
RECURSIVE SeqLess(_, _)
SeqLess(a, b) ==
  IF b = <<>> THEN FALSE
  ELSE IF a = <<>> THEN TRUE
  ELSE IF Head(a) # Head(b) THEN Head(a) < Head(b)
  ELSE SeqLess(Tail(a), Tail(b))

StrLess(a, b) == SeqLess(CodePoints(a), CodePoints(b))

\* Python's "x in list".
InList(x, list) == \E i \in DOMAIN list : list[i] = x

\* ------------------------------------------------------- dietary tags
\* The inner loop of get_dietary_tags: for category in ...values(): if
\* ingredient in category['items']: all_tags.update(category['tags']).
RECURSIVE tags_of_ingredient(_, _, _)
tags_of_ingredient(ingredient, categories, all_tags) ==
  IF categories = <<>> THEN all_tags
  ELSE LET category == Head(categories)
       IN tags_of_ingredient(ingredient, Tail(categories),
            IF InList(ingredient, category.items)
            THEN all_tags \cup {category.tags[i] : i \in DOMAIN category.tags}
            ELSE all_tags)

\* The outer loop of get_dietary_tags over the selected ingredients.
RECURSIVE tags_of_selection(_, _, _)
tags_of_selection(ingredients, categories, all_tags) ==
  IF ingredients = <<>> THEN all_tags
  ELSE tags_of_selection(Tail(ingredients), categories,
         tags_of_ingredient(Head(ingredients), categories, all_tags))

\* Faulty variant: the category loop stops at the first category (a stray break).
get_dietary_tags_first_category(selected) ==
  tags_of_selection(selected, <<INGREDIENT_CATEGORIES[1]>>, {})

\* RecipeManager.get_dietary_tags, before list(): the set all_tags.
get_dietary_tags(selected) ==
  tags_of_selection(selected, INGREDIENT_CATEGORIES, {})

\* ------------------------------------------------------------ nutrition
\* sum([len(ingredient) * 10 for ingredient in ingredients])
RECURSIVE sum_len10(_)
sum_len10(ingredients) ==
  IF ingredients = <<>> THEN 0
  ELSE StrLen(Head(ingredients)) * 10 + sum_len10(Tail(ingredients))

\* len([i for i in ingredients if i in items])
RECURSIVE count_in(_, _)
count_in(ingredients, items) ==
  IF ingredients = <<>> THEN 0
  ELSE (IF InList(Head(ingredients), items) THEN 1 ELSE 0)
       + count_in(Tail(ingredients), items)

\* INGREDIENT_CATEGORIES[name]
Category(name) ==
  CHOOSE c \in {INGREDIENT_CATEGORIES[i] : i \in DOMAIN INGREDIENT_CATEGORIES} :
    c.name = name

RECURSIVE dedupe(_)
dedupe(s) ==
  IF s = <<>> THEN <<>>
  ELSE LET r == dedupe(Tail(s))
       IN IF InList(Head(s), Tail(s)) THEN r ELSE <<Head(s)>> \o r

\* Faulty variant: the estimate is taken over the deduplicated selection.
analyze_nutrition_dedupe(ingredients) ==
  [calories |-> sum_len10(dedupe(ingredients)),
   protein |-> count_in(dedupe(ingredients), Category("Proteins").items) * 15,
   carbs |-> count_in(dedupe(ingredients), Category("Pantry").items) * 20]

analyze_nutrition(ingredients) ==
  [calories |-> sum_len10(ingredients),
   protein |-> count_in(ingredients, Category("Proteins").items) * 15,
   carbs |-> count_in(ingredients, Category("Pantry").items) * 20]

\* --------------------------------------------------- in-memory history
\* A history entry in memory.  Its 'ingredients' is either the very list
\* object st.session_state.selected_ingredients (alias = TRUE: add_recipe
\* stores the reference, not a copy) or a list of its own (as json.load
\* builds it).
entry_ingredients(entry, selected) ==
  IF entry.ingredients.alias THEN selected ELSE entry.ingredients.list

\* list(all_tags): the set's iteration order depends on the process's string
\* hash seed; TagOrder gives the order of all tags under a seed.
HashSeeds == {"seed0", "seed1"}

TagOrder(seed) ==
  IF seed = "seed0"
  THEN <<"vegan", "vegetarian", "healthy", "high-protein", "staples",
         "flavor-enhancer">>
  ELSE <<"flavor-enhancer", "staples", "high-protein", "healthy",
         "vegetarian", "vegan">>

RECURSIVE filter_seq(_, _)
filter_seq(s, S) ==
  IF s = <<>> THEN <<>>
  ELSE (IF Head(s) \in S THEN <<Head(s)>> ELSE <<>>) \o filter_seq(Tail(s), S)

list_of_set(S, seed) == filter_seq(TagOrder(seed), S)

\* ------------------------------------------------------------ the store
\* recipe_history.json: absent, not parseable, or a JSON document (a list
\* of objects whose 'ingredients' is a plain list).
AbsentFile == [kind |-> "absent", doc |-> <<>>]
MalformedFile == [kind |-> "malformed", doc |-> <<>>]

\* json.dump(self.history, f): every entry is serialised with the value its
\* 'ingredients' list has at this moment.
json_dump(history, selected) ==
  [i \in DOMAIN history |->
     [recipe |-> history[i].recipe,
      timestamp |-> history[i].timestamp,
      ingredients |-> entry_ingredients(history[i], selected),
      likes |-> history[i].likes,
      dietary_tags |-> history[i].dietary_tags]]

\* json.load(f): every entry gets a list of its own.
json_load(doc) ==
  [i \in DOMAIN doc |->
     [recipe |-> doc[i].recipe,
      timestamp |-> doc[i].timestamp,
      ingredients |-> [alias |-> FALSE, list |-> doc[i].ingredients],
      likes |-> doc[i].likes,
      dietary_tags |-> doc[i].dietary_tags]]

\* Faulty variant: a store that cannot be parsed is taken for an empty history.
load_history_swallow(f) ==
  IF f.kind = "json"
  THEN [raised |-> FALSE, history |-> json_load(f.doc)]
  ELSE [raised |-> FALSE, history |-> <<>>]

\* RecipeManager.load_history: json.load raises on a malformed file.
load_history(f) ==
  IF f.kind = "absent" THEN [raised |-> FALSE, history |-> <<>>]
  ELSE IF f.kind = "malformed" THEN [raised |-> TRUE, history |-> <<>>]
  ELSE [raised |-> FALSE, history |-> json_load(f.doc)]

\* Faulty variant: only the newest entry is written.
save_history_tail(history, selected) ==
  [kind |-> "json",
   doc |-> json_dump(SubSeq(history, Len(history), Len(history)), selected)]

\* RecipeManager.save_history: the whole history replaces the file.
save_history(history, selected) ==
  [kind |-> "json", doc |-> json_dump(history, selected)]

\* RecipeManager.add_recipe: the new history and the file it writes.
add_recipe(history, recipe_data, selected, t, seed) ==
  LET recipe_entry ==
        [recipe |-> recipe_data,
         timestamp |-> t,
         ingredients |-> [alias |-> TRUE, list |-> <<>>],
         likes |-> 0,
         dietary_tags |-> list_of_set(get_dietary_tags(selected), seed)]
      h == Append(history, recipe_entry)
  IN [history |-> h, file |-> save_history(h, selected)]

\* Faulty variant: Like on an empty history is skipped without an error.
like_click_skip_empty(history, selected, f) ==
  IF history = <<>>
  THEN [raised |-> FALSE, history |-> history, file |-> f]
  ELSE LET h == [history EXCEPT ![Len(history)].likes = @ + 1]
       IN [raised |-> FALSE, history |-> h, file |-> save_history(h, selected)]

\* Faulty variant: the like goes to the first entry of the history.
like_click_first(history, selected, f) ==
  IF history = <<>>
  THEN [raised |-> TRUE, history |-> history, file |-> f]
  ELSE LET h == [history EXCEPT ![1].likes = @ + 1]
       IN [raised |-> FALSE, history |-> h, file |-> save_history(h, selected)]

\* The Like button: recipe_manager.history[-1]['likes'] += 1, then
\* save_history(); history[-1] of an empty list raises IndexError before
\* anything is written.
like_click(history, selected, f) ==
  IF history = <<>>
  THEN [raised |-> TRUE, history |-> history, file |-> f]
  ELSE LET h == [history EXCEPT ![Len(history)].likes = @ + 1]
       IN [raised |-> FALSE, history |-> h, file |-> save_history(h, selected)]

\* ------------------------------------------------- popular combinations
\* combinations[(i1, i2)] += 1 on a defaultdict(int); the dict keeps its
\* keys in insertion order.
dict_inc(combinations, key) ==
  IF \E i \in DOMAIN combinations : combinations[i].key = key
  THEN [i \in DOMAIN combinations |->
          IF combinations[i].key = key
          THEN [combinations[i] EXCEPT !.count = @ + 1]
          ELSE combinations[i]]
  ELSE Append(combinations, [key |-> key, count |-> 1])

\* for i2 in entry['ingredients']: if i1 < i2: combinations[(i1, i2)] += 1
RECURSIVE count_i2(_, _, _)
count_i2(i1, rest, combinations) ==
  IF rest = <<>> THEN combinations
  ELSE count_i2(i1, Tail(rest),
         IF StrLess(i1, Head(rest))
         THEN dict_inc(combinations, <<i1, Head(rest)>>)
         ELSE combinations)

\* for i1 in entry['ingredients']: ...
RECURSIVE count_i1(_, _, _)
count_i1(rest, ingredients, combinations) ==
  IF rest = <<>> THEN combinations
  ELSE count_i1(Tail(rest), ingredients,
         count_i2(Head(rest), ingredients, combinations))

\* for entry in recipe_manager.history: ...
RECURSIVE count_entries(_, _, _)
count_entries(history, selected, combinations) ==
  IF history = <<>> THEN combinations
  ELSE LET ingredients == entry_ingredients(Head(history), selected)
       IN count_entries(Tail(history), selected,
            count_i1(ingredients, ingredients, combinations))

\* The combinations dict after the loops.
pair_combinations(history, selected) == count_entries(history, selected, <<>>)

\* Faulty variant: an item goes before the items of equal count.
insert_desc_unstable(sorted, item) ==
  LET p == Cardinality({i \in DOMAIN sorted : sorted[i].count > item.count})
  IN SubSeq(sorted, 1, p) \o <<item>> \o SubSeq(sorted, p + 1, Len(sorted))

\* sorted(..., key=lambda x: x[1], reverse=True) is stable: an item goes
\* after every item whose count is at least its own.
insert_desc(sorted, item) ==
  LET p == Cardinality({i \in DOMAIN sorted : sorted[i].count >= item.count})
  IN SubSeq(sorted, 1, p) \o <<item>> \o SubSeq(sorted, p + 1, Len(sorted))

RECURSIVE sorted_desc_from(_, _)
sorted_desc_from(items, sorted) ==
  IF items = <<>> THEN sorted
  ELSE sorted_desc_from(Tail(items), insert_desc(sorted, Head(items)))

sorted_desc(items) == sorted_desc_from(items, <<>>)

\* The slice [:3] of the program.
TopK == 3

\* sorted(combinations.items(), ...)[:k]
top_pairs(history, selected, k) ==
  LET s == sorted_desc(pair_combinations(history, selected))
  IN SubSeq(s, 1, IF k < Len(s) THEN k ELSE Len(s))

\* What "Popular Combinations" lists: nothing when the history is empty.
popular_combinations(history, selected) ==
  IF history # <<>> THEN top_pairs(history, selected, TopK) ELSE <<>>

\* ------------------------------------------------------------ the state
VARIABLES
  file,                  \* recipe_history.json
  selected_ingredients,  \* st.session_state.selected_ingredients
  session,               \* st.session_state.recipe and .nutrition
  recipe_manager,        \* the RecipeManager of the last script run
  top_combos,            \* what the last script run listed as popular
  exception,             \* the exception the last script run ended with
  rerun,                 \* st.rerun() was called: a rerun is due
  now,                   \* the clock datetime.now() reads
  hashseed,              \* the process's string hash seed
  generated,             \* get_recipe calls that returned a recipe
  appended,              \* add_recipe calls
  lastOp                 \* what the last step did

vars == <<file, selected_ingredients, session, recipe_manager, top_combos,
          exception, rerun, now, hashseed, generated, appended, lastOp>>

NoNutrition == [calories |-> 0, protein |-> 0, carbs |-> 0]
NoRecipe == [has_recipe |-> FALSE, recipe |-> "", nutrition |-> NoNutrition]
NoManager == [constructed |-> FALSE, history |-> <<>>]

\* The texts the recipe generator returns.
Texts == {"recipe A"}

\* The names the user picks in the multiselects, each an item of a category.
PickableSet == {"Tomato", "Eggs"}

\* The lists without repeats over a set.
DistinctSeqs(S) ==
  UNION {{s \in [1..n -> S] : \A i, j \in 1..n : i # j => s[i] # s[j]} :
         n \in 0..Cardinality(S)}

\* The values the multiselect of category c can return.
WidgetValues(c) ==
  DistinctSeqs({x \in PickableSet : InList(x, INGREDIENT_CATEGORIES[c].items)})

\* for item in selected: if item not in selected_ingredients: append(item)
RECURSIVE sidebar_items(_, _)
sidebar_items(selected, widget) ==
  IF widget = <<>> THEN selected
  ELSE sidebar_items(IF InList(Head(widget), selected) THEN selected
                     ELSE Append(selected, Head(widget)),
                     Tail(widget))

\* for category, items in st.session_state.available_ingredients.items()
RECURSIVE sidebar(_, _)
sidebar(selected, widgets) ==
  IF widgets = <<>> THEN selected
  ELSE sidebar(sidebar_items(selected, Head(widgets)), Tail(widgets))

\* Faulty variant: the manager of the previous run is kept (cached in the session)
\* instead of being built anew.
new_manager_cached(f, old) ==
  IF old.constructed THEN [raised |-> FALSE, history |-> old.history]
  ELSE load_history(f)

\* recipe_manager = RecipeManager() at the start of every script run: the
\* manager of the previous run (old) is dropped, the history is read again.
new_manager(f, old) == load_history(f)

\* Faulty variant: a failed generation is caught and its (empty) text recorded.
generate_click_swallow(result, history, selected, t, seed, f) ==
  LET a == add_recipe(history, IF result.ok THEN result.text ELSE "",
                      selected, t, seed)
  IN [raised |-> FALSE, added |-> TRUE, history |-> a.history, file |-> a.file,
      session |-> [has_recipe |-> TRUE,
                   recipe |-> IF result.ok THEN result.text ELSE "",
                   nutrition |-> analyze_nutrition(selected)]]

\* The Generate button: get_recipe, analyze_nutrition, the two session
\* fields, add_recipe.  An exception of get_recipe ends the run there.
generate_click(result, history, selected, t, seed, f) ==
  IF ~result.ok
  THEN [raised |-> TRUE, added |-> FALSE, history |-> history, file |-> f,
        session |-> NoRecipe]
  ELSE LET a == add_recipe(history, result.text, selected, t, seed)
       IN [raised |-> FALSE, added |-> TRUE, history |-> a.history,
           file |-> a.file,
           session |-> [has_recipe |-> TRUE, recipe |-> result.text,
                        nutrition |-> analyze_nutrition(selected)]]

Init ==
  /\ file = AbsentFile
  /\ selected_ingredients = <<>>
  /\ session = NoRecipe
  /\ recipe_manager = NoManager
  /\ top_combos = <<>>
  /\ exception = "none"
  /\ rerun = FALSE
  /\ now = 1
  /\ hashseed \in HashSeeds
  /\ generated = 0
  /\ appended = 0
  /\ lastOp = "none"

\* A script run in which RecipeManager() raises: nothing after line 145 runs.
LoadFailedRun ==
  /\ new_manager(file, recipe_manager).raised
  /\ recipe_manager' = NoManager
  /\ top_combos' = <<>>
  /\ exception' = "JSONDecodeError"
  /\ rerun' = FALSE
  /\ lastOp' = "load_failed"
  /\ UNCHANGED <<file, selected_ingredients, session, now, hashseed,
                 generated, appended>>

\* A script run after a change of the multiselect widgets (or a page load).
SelectRun ==
  \E w1 \in WidgetValues(1), w2 \in WidgetValues(2), w3 \in WidgetValues(3),
     w4 \in WidgetValues(4), w5 \in WidgetValues(5) :
    LET m == new_manager(file, recipe_manager)
        sel == sidebar(selected_ingredients, <<w1, w2, w3, w4, w5>>)
    IN /\ ~rerun
       /\ ~m.raised
       /\ selected_ingredients' = sel
       /\ recipe_manager' = [constructed |-> TRUE, history |-> m.history]
       /\ top_combos' = IF session.has_recipe
                        THEN popular_combinations(m.history, sel) ELSE <<>>
       /\ exception' = "none"
       /\ lastOp' = "select"
       /\ UNCHANGED <<file, session, rerun, now, hashseed, generated, appended>>

\* A script run after a click on Generate; the widgets are as the run
\* before left them, so the sidebar adds nothing.
GenerateRun ==
  \E result \in [ok : {TRUE}, text : Texts] \cup {[ok |-> FALSE, text |-> ""]} :
    LET m == new_manager(file, recipe_manager)
        g == generate_click(result, m.history, selected_ingredients, now,
                            hashseed, file)
    IN /\ ~rerun
       /\ ~m.raised
       /\ selected_ingredients # <<>>
       /\ result.ok => generated < MaxGen
       /\ recipe_manager' = [constructed |-> TRUE, history |-> g.history]
       /\ file' = g.file
       /\ session' = IF g.raised THEN session ELSE g.session
       /\ top_combos' = <<>>
       /\ exception' = IF g.raised THEN "GenerationError" ELSE "none"
       /\ rerun' = ~g.raised
       /\ now' = IF g.added THEN now + 1 ELSE now
       /\ generated' = IF result.ok THEN generated + 1 ELSE generated
       /\ appended' = IF g.added THEN appended + 1 ELSE appended
       /\ lastOp' = IF result.ok THEN "generate" ELSE "generate_failed"
       /\ UNCHANGED <<selected_ingredients, hashseed>>

\* The script run st.rerun() asks for: no widget changed, no button clicked.
RerunRun ==
  LET m == new_manager(file, recipe_manager)
  IN /\ rerun
     /\ ~m.raised
     /\ recipe_manager' = [constructed |-> TRUE, history |-> m.history]
     /\ top_combos' = IF session.has_recipe
                      THEN popular_combinations(m.history, selected_ingredients)
                      ELSE <<>>
     /\ exception' = "none"
     /\ rerun' = FALSE
     /\ lastOp' = "rerun"
     /\ UNCHANGED <<file, selected_ingredients, session, now, hashseed,
                    generated, appended>>

\* A script run after a click on Like (shown once a recipe is in the session).
LikeRun ==
  LET m == new_manager(file, recipe_manager)
      l == like_click(m.history, selected_ingredients, file)
  IN /\ ~rerun
     /\ ~m.raised
     /\ session.has_recipe
     /\ m.history # <<>> => m.history[Len(m.history)].likes < MaxLikes
     /\ recipe_manager' = [constructed |-> TRUE, history |-> l.history]
     /\ file' = l.file
     /\ top_combos' = IF l.raised THEN <<>>
                      ELSE popular_combinations(l.history, selected_ingredients)
     /\ exception' = IF l.raised THEN "IndexError" ELSE "none"
     /\ lastOp' = IF m.history = <<>> THEN "like_failed" ELSE "like"
     /\ UNCHANGED <<selected_ingredients, session, rerun, now, hashseed,
                    generated, appended>>

\* The browser session ends and a new one starts: st.session_state is new.
NewSession ==
  /\ ~rerun
  /\ selected_ingredients' = <<>>
  /\ session' = NoRecipe
  /\ recipe_manager' = NoManager
  /\ top_combos' = <<>>
  /\ exception' = "none"
  /\ lastOp' = "new_session"
  /\ UNCHANGED <<file, rerun, now, hashseed, generated, appended>>

\* The environment removes the store file.
ExternalRemove ==
  /\ ~rerun
  /\ file.kind # "absent"
  /\ file' = AbsentFile
  /\ lastOp' = "external"
  /\ UNCHANGED <<selected_ingredients, session, recipe_manager, top_combos,
                 exception, rerun, now, hashseed, generated, appended>>

\* The environment leaves a store file that is not JSON.
ExternalCorrupt ==
  /\ ~rerun
  /\ file.kind # "malformed"
  /\ file' = MalformedFile
  /\ lastOp' = "external"
  /\ UNCHANGED <<selected_ingredients, session, recipe_manager, top_combos,
                 exception, rerun, now, hashseed, generated, appended>>

Next ==
  \/ LoadFailedRun
  \/ SelectRun
  \/ GenerateRun
  \/ RerunRun
  \/ LikeRun
  \/ NewSession
  \/ ExternalRemove
  \/ ExternalCorrupt

Spec == Init /\ [][Next]_vars

\* ------------------------------------------------- the function harness
\* The functions called directly, as a unit test calls them: on a session
\* list of any names (repeats and names of no category included) and on a
\* store whose entries hold any ingredient lists.
FnNameList == <<"Eggs", "Rice", "Tomato", "Saffron", "Milk", "Basil">>
FnNames == {FnNameList[i] : i \in 1..NumFnNames}

RECURSIVE StoreSize(_)
StoreSize(doc) ==
  IF doc = <<>> THEN 0 ELSE Len(Head(doc).ingredients) + StoreSize(Tail(doc))

\* An entry as a run of the program writes it for the ingredient list.
StoredEntry(ingredients, t) ==
  [recipe |-> "recipe A", timestamp |-> t, ingredients |-> ingredients,
   likes |-> 0,
   dietary_tags |-> list_of_set(get_dietary_tags(ingredients), "seed0")]

FnInit ==
  /\ file = AbsentFile
  /\ selected_ingredients = <<>>
  /\ session = NoRecipe
  /\ recipe_manager = NoManager
  /\ top_combos = <<>>
  /\ exception = "none"
  /\ rerun = FALSE
  /\ now = 1
  /\ hashseed = "seed0"
  /\ generated = 0
  /\ appended = 0
  /\ lastOp = "none"

\* The harness puts one more entry into the store.
FnStoreEntry ==
  \E name \in FnNames :
    /\ lastOp \in {"none", "fn_store"}
    /\ StoreSize(file.doc) < MaxStoreSize
    /\ file' = [kind |-> "json",
                doc |-> Append(file.doc, StoredEntry(<<name>>, Len(file.doc) + 1))]
    /\ lastOp' = "fn_store"
    /\ UNCHANGED <<selected_ingredients, session, recipe_manager, top_combos,
                   exception, rerun, now, hashseed, generated, appended>>

\* The harness puts one more ingredient into the last entry of the store.
FnStoreIngredient ==
  \E name \in FnNames :
    /\ lastOp = "fn_store"
    /\ StoreSize(file.doc) < MaxStoreSize
    /\ LET n == Len(file.doc)
       IN file' = [kind |-> "json",
                   doc |-> [file.doc EXCEPT ![n] =
                              StoredEntry(Append(file.doc[n].ingredients, name), n)]]
    /\ lastOp' = "fn_store"
    /\ UNCHANGED <<selected_ingredients, session, recipe_manager, top_combos,
                   exception, rerun, now, hashseed, generated, appended>>

\* The harness puts one more name into the session's list.
FnSelect ==
  \E name \in FnNames :
    /\ lastOp \in {"none", "fn_select"}
    /\ Len(selected_ingredients) < MaxFnLen
    /\ selected_ingredients' = Append(selected_ingredients, name)
    /\ lastOp' = "fn_select"
    /\ UNCHANGED <<file, session, recipe_manager, top_combos, exception,
                   rerun, now, hashseed, generated, appended>>

\* recipe_manager = RecipeManager()
FnLoad ==
  LET m == new_manager(file, recipe_manager)
  IN /\ ~recipe_manager.constructed
     /\ ~m.raised
     /\ recipe_manager' = [constructed |-> TRUE, history |-> m.history]
     /\ lastOp' = "fn_load"
     /\ UNCHANGED <<file, selected_ingredients, session, top_combos, exception,
                    rerun, now, hashseed, generated, appended>>

\* st.session_state.nutrition = analyze_nutrition(selected_ingredients)
FnAnalyze ==
  /\ lastOp \in {"none", "fn_select"}
  /\ session' = [session EXCEPT
                   !.nutrition = analyze_nutrition(selected_ingredients)]
  /\ lastOp' = "fn_analyze"
  /\ UNCHANGED <<file, selected_ingredients, recipe_manager, top_combos,
                 exception, rerun, now, hashseed, generated, appended>>

\* recipe_manager.add_recipe(recipe)
FnAddRecipe ==
  \E text \in Texts :
    LET a == add_recipe(recipe_manager.history, text, selected_ingredients,
                        now, hashseed)
    IN /\ recipe_manager.constructed
       /\ \A i \in DOMAIN recipe_manager.history :
            recipe_manager.history[i].ingredients.alias
       /\ appended < MaxGen
       /\ recipe_manager' = [constructed |-> TRUE, history |-> a.history]
       /\ file' = a.file
       /\ now' = now + 1
       /\ appended' = appended + 1
       /\ lastOp' = "fn_add"
       /\ UNCHANGED <<selected_ingredients, session, top_combos, exception,
                      rerun, hashseed, generated>>

\* The "Popular Combinations" block on the manager's history.
FnRank ==
  /\ recipe_manager.constructed
  /\ lastOp \in {"fn_load", "fn_add"}
  /\ top_combos' = popular_combinations(recipe_manager.history,
                                        selected_ingredients)
  /\ lastOp' = "fn_rank"
  /\ UNCHANGED <<file, selected_ingredients, session, recipe_manager,
                 exception, rerun, now, hashseed, generated, appended>>

FnNext ==
  \/ FnStoreEntry
  \/ FnStoreIngredient
  \/ FnSelect
  \/ FnLoad
  \/ FnAnalyze
  \/ FnAddRecipe
  \/ FnRank

SpecFn == FnInit /\ [][FnNext]_vars

\* ================================================================ claims
\* The history of the manager with every 'ingredients' list read out.
MemoryView == json_dump(recipe_manager.history, selected_ingredients)

Last(s) == s[Len(s)]

SetOf(s) == {s[i] : i \in DOMAIN s}

\* ---------------------------------------------------------------- C1
\* C1: after a successful append (Generate) or like, the persisted history
\* equals the in-memory history; the load of the next script run (the rerun
\* after Generate) returns a history whose last entry is the appended one:
\* the recipe of the session, the selection, no likes, the selection's tags.
C1_DurableEqualsMemory ==
  /\ lastOp \in {"generate", "like"} =>
       /\ file.kind = "json"
       /\ ~load_history(file).raised
       /\ json_dump(load_history(file).history, selected_ingredients) = MemoryView
  /\ lastOp = "generate" =>
       LET e == Last(load_history(file).history)
       IN /\ e.recipe = session.recipe
          /\ e.timestamp = now - 1
          /\ e.ingredients = [alias |-> FALSE, list |-> selected_ingredients]
          /\ e.likes = 0
          /\ e.dietary_tags = Last(recipe_manager.history).dietary_tags
  /\ lastOp = "rerun" =>
       /\ recipe_manager.history = json_load(file.doc)
       /\ Last(recipe_manager.history).recipe = session.recipe
       /\ Last(recipe_manager.history).ingredients.list = selected_ingredients
       /\ Last(recipe_manager.history).likes = 0
       /\ SetOf(Last(recipe_manager.history).dietary_tags)
            = get_dietary_tags(selected_ingredients)

\* A second entry was appended to a history whose first entry has a like,
\* and the rerun has loaded it.
C1_Witness ==
  /\ lastOp = "rerun"
  /\ Len(recipe_manager.history) = 2
  /\ recipe_manager.history[1].likes = 1

\* ---------------------------------------------------------------- C2
\* C2: a Like on an empty history ends the run with an IndexError, and
\* neither the history nor the store file is changed.
C2_LikeOnEmptyFails ==
  [][lastOp' = "like_failed" =>
       /\ exception' = "IndexError"
       /\ file' = file
       /\ load_history(file).history = <<>>
       /\ recipe_manager'.history = <<>>]_vars

\* Like was clicked with a recipe in the session and no entry in the store.
C2_Witness ==
  /\ lastOp = "like_failed"
  /\ session.has_recipe
  /\ generated >= 1

\* ---------------------------------------------------------------- C3
\* C3: a Like on a non-empty history adds exactly 1 to the likes of the
\* last entry and changes no other field and no other entry, in memory and
\* in the store; likes start at 0 and are never negative.
C3_LikeFrame ==
  /\ [](/\ \A i \in DOMAIN recipe_manager.history :
             recipe_manager.history[i].likes >= 0
        /\ \A i \in DOMAIN file.doc : file.doc[i].likes >= 0
        /\ lastOp = "generate" => Last(file.doc).likes = 0)
  /\ [][lastOp' = "like" =>
          LET old == load_history(file).history
              new == recipe_manager'.history
              n == Len(old)
          IN /\ n > 0
             /\ Len(new) = n
             /\ \A i \in 1..(n - 1) : new[i] = old[i]
             /\ new[n].likes = old[n].likes + 1
             /\ new[n].recipe = old[n].recipe
             /\ new[n].timestamp = old[n].timestamp
             /\ new[n].ingredients = old[n].ingredients
             /\ new[n].dietary_tags = old[n].dietary_tags
             /\ file'.doc = [file.doc EXCEPT ![n].likes = @ + 1]
             /\ selected_ingredients' = selected_ingredients]_vars

\* The last of two entries has been liked twice.
C3_Witness ==
  /\ lastOp = "like"
  /\ Len(recipe_manager.history) = 2
  /\ recipe_manager.history[2].likes = 2
  /\ recipe_manager.history[1].likes = 0

\* ---------------------------------------------------------------- C6
\* C6: an entry is appended only after get_recipe returned: a failed
\* generation surfaces an error and changes neither the history nor the
\* store nor the session's recipe; add_recipe calls and completed
\* generations are equal in number, and the store never holds more entries
\* than generations were completed.
C6_AppendOnlyAfterGeneration ==
  /\ [](/\ appended = generated
        /\ Len(file.doc) <= generated
        /\ lastOp = "generate_failed" => exception = "GenerationError" /\ ~rerun)
  /\ [][lastOp' = "generate_failed" =>
          /\ file' = file
          /\ recipe_manager'.history = load_history(file).history
          /\ session' = session]_vars

\* A generation failed after an earlier one had succeeded.
C6_Witness ==
  /\ lastOp = "generate_failed"
  /\ generated = 1
  /\ Len(recipe_manager.history) = 1

\* ---------------------------------------------------------------- C7
\* The (timestamp, ingredients, dietary_tags) of every entry, in memory and
\* in the store.
Snapshots ==
  {[timestamp |-> e.timestamp, ingredients |-> e.ingredients,
    dietary_tags |-> e.dietary_tags] : e \in SetOf(MemoryView) \cup SetOf(file.doc)}

\* C7: an entry keeps the ingredients and the dietary tags it was appended
\* with: no step changes them for an entry (known by its timestamp) that is
\* in the history before and after the step, in memory or in the store.
C7_SnapshotFrozen ==
  [][\A x \in Snapshots : \A y \in Snapshots' :
       x.timestamp = y.timestamp => x = y]_vars

\* The selection has grown since the entry was appended, and the store has
\* been rewritten (by a Like) after that.
C7_Witness ==
  /\ lastOp = "like"
  /\ Len(file.doc) = 1
  /\ Len(file.doc[1].ingredients) = 1
  /\ Len(selected_ingredients) = 2
  /\ file.doc[1].ingredients[1] = selected_ingredients[1]

\* ---------------------------------------------------------------- C8
\* C8: with no store file the load gives an empty history and no error;
\* with a malformed store file every script run ends at the load with a
\* JSONDecodeError and no step of the program changes the file.
C8_LoadAbsentAndMalformed ==
  /\ [][(file.kind = "absent" /\ lastOp' \in {"select", "like_failed"}) =>
          /\ recipe_manager'.constructed
          /\ recipe_manager'.history = <<>>
          /\ lastOp' = "select" => exception' = "none"]_vars
  /\ [][(file.kind = "malformed" /\ lastOp' # "external") =>
          /\ file' = file
          /\ lastOp' \in {"load_failed", "new_session"}
          /\ lastOp' = "load_failed" =>
               exception' = "JSONDecodeError" /\ ~recipe_manager'.constructed]_vars
  /\ [][lastOp' = "load_failed" => file.kind = "malformed" /\ file' = file]_vars

\* A script run failed at the load in a session that holds a recipe.
C8_Witness ==
  /\ lastOp = "load_failed"
  /\ session.has_recipe
  /\ file.kind = "malformed"

\* A script run found no store file and went on with an empty history.
C8_WitnessAbsent ==
  /\ lastOp = "select"
  /\ file.kind = "absent"
  /\ recipe_manager.history = <<>>
  /\ generated >= 1

\* ------------------------------------------------------------ C4, C5
\* The ingredient list of entry e of the manager's history.
Ingr(e) == MemoryView[e].ingredients

\* The places where the loops meet the pair key: entry e, positions i, j.
Occurrences(key) ==
  UNION {{<<e, i, j>> : <<i, j>> \in
            {p \in (DOMAIN Ingr(e)) \X (DOMAIN Ingr(e)) :
               Ingr(e)[p[1]] = key[1] /\ Ingr(e)[p[2]] = key[2]}} :
         e \in DOMAIN MemoryView}

\* The entries that hold both ingredients of the pair.
EntriesWithBoth(key) ==
  {e \in DOMAIN MemoryView : InList(key[1], Ingr(e)) /\ InList(key[2], Ingr(e))}

\* The pairs (a, b) of names with a < b.
OrderedPairs == {key \in FnNames \X FnNames : StrLess(key[1], key[2])}

\* The occurrences of every pair met in the history.
PairOccurrences ==
  LET all == [key \in OrderedPairs |-> Occurrences(key)]
  IN [key \in {k \in OrderedPairs : all[k] # {}} |-> all[key]]

\* The pairs (a, b), a < b, met in the history.
PairKeys == DOMAIN PairOccurrences

\* The counter of a key in the combinations dict, 0 when it has none.
DictCount(combinations, key) ==
  IF \E i \in DOMAIN combinations : combinations[i].key = key
  THEN (CHOOSE c \in SetOf(combinations) : c.key = key).count
  ELSE 0

\* C4: the counter of every pair of distinct ingredients is the number of
\* history entries that hold both, also when an entry's list repeats an
\* ingredient; keys are ordered pairs a < b, none with a = b, none twice.
C4_PairCountedOncePerEntry ==
  lastOp = "fn_rank" =>
    LET D == pair_combinations(recipe_manager.history, selected_ingredients)
    IN /\ \A i \in DOMAIN D : StrLess(D[i].key[1], D[i].key[2])
       /\ \A i, j \in DOMAIN D : D[i].key = D[j].key => i = j
       /\ \A a, b \in FnNames :
            StrLess(a, b) =>
              DictCount(D, <<a, b>>) = Cardinality(EntriesWithBoth(<<a, b>>))

\* The same with the count the loops make: one per pair of positions.
C4_PairCountedPerOccurrence ==
  lastOp = "fn_rank" =>
    LET D == pair_combinations(recipe_manager.history, selected_ingredients)
    IN /\ \A i \in DOMAIN D : StrLess(D[i].key[1], D[i].key[2])
       /\ \A i, j \in DOMAIN D : D[i].key = D[j].key => i = j
       /\ \A a, b \in FnNames :
            StrLess(a, b) =>
              DictCount(D, <<a, b>>) = Cardinality(Occurrences(<<a, b>>))

TripleLess(s, t) ==
  \/ s[1] < t[1]
  \/ s[1] = t[1] /\ s[2] < t[2]
  \/ s[1] = t[1] /\ s[2] = t[2] /\ s[3] < t[3]

\* Where the loops meet a key first: entries in history order, then i1,
\* then i2.
FirstOf(occurrences) ==
  CHOOSE t \in occurrences : \A u \in occurrences : u = t \/ TripleLess(t, u)

FirstSeen(key) == FirstOf(Occurrences(key))

Min(a, b) == IF a < b THEN a ELSE b

\* R lists the first k pairs of occ (the occurrences of every pair met) by
\* count descending, ties in first-met order.
IsRanking(R, k, occ) ==
  LET keys == DOMAIN occ
      cnt == [key \in keys |-> Cardinality(occ[key])]
      first == [key \in keys |-> FirstOf(occ[key])]
      RankBefore(k1, k2) ==
        \/ cnt[k1] > cnt[k2]
        \/ cnt[k1] = cnt[k2] /\ TripleLess(first[k1], first[k2])
  IN /\ Len(R) = Min(k, Cardinality(keys))
     /\ \A i \in DOMAIN R : R[i].key \in keys /\ R[i].count = cnt[R[i].key]
     /\ \A i, j \in DOMAIN R : i < j => RankBefore(R[i].key, R[j].key)
     /\ \A key \in keys :
          (\A i \in DOMAIN R : R[i].key # key) =>
             \A i \in DOMAIN R : RankBefore(R[i].key, key)

\* The selections [A,B], [A,B], [A,C] with A = Eggs, B = Rice, C = Tomato.
ExampleHistory ==
  json_load(<<StoredEntry(<<"Eggs", "Rice">>, 1), StoredEntry(<<"Eggs", "Rice">>, 2),
              StoredEntry(<<"Eggs", "Tomato">>, 3)>>)

\* top_pairs on the example with k = 2, and on the empty history.
ExampleTop2 == top_pairs(ExampleHistory, <<>>, 2)
EmptyTop == top_pairs(<<>>, <<>>, TopK)

\* C5: the list shown is the first min(3, number of pairs) pairs by count
\* descending, ties in first-met order; nothing is listed for an empty
\* history; and the example with k = 2 gives [(A,B,2), (A,C,1)].
C5_TopPairsRanking ==
  /\ lastOp = "fn_rank" =>
       /\ IsRanking(top_combos, TopK, PairOccurrences)
       /\ recipe_manager.history = <<>> => top_combos = <<>>
  /\ ExampleTop2
       = <<[key |-> <<"Eggs", "Rice">>, count |-> 2],
           [key |-> <<"Eggs", "Tomato">>, count |-> 1]>>
  /\ EmptyTop = <<>>

\* More than three pairs, all met once, were ranked: the first three met
\* are listed in the order met.
C5_Witness ==
  /\ lastOp = "fn_rank"
  /\ Len(top_combos) = TopK
  /\ top_combos[1].count = top_combos[TopK].count
  /\ Cardinality(PairKeys) > TopK

\* A pair met later with a higher count is listed before one met earlier.
C5_WitnessReorder ==
  /\ lastOp = "fn_rank"
  /\ \E i, j \in DOMAIN top_combos :
       /\ i < j
       /\ top_combos[i].count > top_combos[j].count
       /\ TripleLess(FirstSeen(top_combos[j].key), FirstSeen(top_combos[i].key))

\* ---------------------------------------------------------------- C9
Proteins == SetOf(Category("Proteins").items)
Pantry == SetOf(Category("Pantry").items)

\* C9: the estimate of a selection S (repeats allowed) is 10 calories per
\* character of every element, 15 protein per element in Proteins, 20 carbs
\* per element in Pantry, and the call leaves the selection as it was.
C9_NutritionEstimate ==
  /\ [](lastOp = "fn_analyze" =>
          LET S == selected_ingredients
          IN /\ session.nutrition.calories =
                  10 * Cardinality({<<i, c>> \in (DOMAIN S) \X (1..11) :
                                      c <= StrLen(S[i])})
             /\ session.nutrition.protein =
                  15 * Cardinality({i \in DOMAIN S : S[i] \in Proteins})
             /\ session.nutrition.carbs =
                  20 * Cardinality({i \in DOMAIN S : S[i] \in Pantry})
             /\ S = <<>> => session.nutrition = NoNutrition)
  /\ [][lastOp' = "fn_analyze" => selected_ingredients' = selected_ingredients]_vars

\* The estimate of a selection with a repeat: Eggs twice and Rice.
C9_Witness ==
  /\ lastOp = "fn_analyze"
  /\ selected_ingredients = <<"Eggs", "Eggs", "Rice">>
  /\ session.nutrition = [calories |-> 120, protein |-> 30, carbs |-> 20]

\* --------------------------------------------------------------- C10
\* A catalog in which Eggs is an item of two categories.
OverlapCategories ==
  << [name |-> "Proteins", items |-> <<"Eggs", "Tofu">>, tags |-> <<"high-protein">>],
     [name |-> "Breakfast", items |-> <<"Milk", "Eggs">>, tags |-> <<"vegetarian">>] >>

\* The union of the tags of every category that holds an element of S.
UnionTags(S, categories) ==
  UNION {SetOf(categories[c].tags) :
           c \in {d \in DOMAIN categories :
                    \E i \in DOMAIN S : InList(S[i], categories[d].items)}}

AllTags == UNION {SetOf(INGREDIENT_CATEGORIES[c].tags) : c \in DOMAIN INGREDIENT_CATEGORIES}

Reverse(s) == [i \in DOMAIN s |-> s[Len(s) + 1 - i]]

\* The tags the loops give for Eggs under the catalog with the overlap.
OverlapEggsTags == tags_of_selection(<<"Eggs">>, OverlapCategories, {})

\* C10: the tags add_recipe records for a selection S are, as a set, the
\* union of the tags of every category holding an element of S: a subset of
\* all catalog tags, empty for the empty selection, the same for S reversed
\* or deduplicated; with an item in two categories the loops give the tags
\* of both.
C10_ResolveTags ==
  /\ lastOp = "fn_add" =>
       LET S == selected_ingredients
           tags == Last(recipe_manager.history).dietary_tags
       IN /\ SetOf(tags) = UnionTags(S, INGREDIENT_CATEGORIES)
          /\ SetOf(tags) \subseteq AllTags
          /\ \A i, j \in DOMAIN tags : tags[i] = tags[j] => i = j
          /\ S = <<>> => tags = <<>>
          /\ get_dietary_tags(Reverse(S)) = SetOf(tags)
          /\ get_dietary_tags(dedupe(S)) = SetOf(tags)
          /\ tags_of_selection(S, OverlapCategories, {})
               = UnionTags(S, OverlapCategories)
  /\ OverlapEggsTags = {"high-protein", "vegetarian"}

\* A recipe was added for a selection with an item of a three-tag category,
\* an item of a one-tag category and a name of no category.
C10_Witness ==
  /\ lastOp = "fn_add"
  /\ InList("Tomato", selected_ingredients)
  /\ InList("Eggs", selected_ingredients)
  /\ InList("Saffron", selected_ingredients)
  /\ Len(Last(recipe_manager.history).dietary_tags) = 4

====
